---- MODULE Spec2Model ----
(***************************************************************************)
(* Model of the YAML prompt flattener (src/parser.py,                      *)
(* class YAMLPromptTemplateParser).                                        *)
(*                                                                         *)
(* Text is a sequence of one-character strings, so that the regular        *)
(* expressions of the parser (variables, brace groups, wildcards) are      *)
(* modelled by scanners over characters.  Numbers (weights, chances and    *)
(* values of the random source) are integers counting hundredths:          *)
(* 100 is 1.0, 50 is 0.5.                                                  *)
(*                                                                         *)
(* A call that changes the engine (the position in the random stream, the  *)
(* class-level wildcard cache) takes the engine context e and returns a    *)
(* record [v, e, st]: the value, the context after the call and "ok" or    *)
(* the name of the exception that leaves the call.                         *)
(***************************************************************************)
EXTENDS Integers, Sequences, FiniteSets, TLC

\* ------------------------------------------------------------------------
\* Bounds of the model
\* ------------------------------------------------------------------------
\* passes of one nested expand_string loop that are evaluated before the
\* call is reported as not having reached a fixed point
MaxPasses == 4
\* nesting of expand_string calls (through _choose_brace) that is evaluated
MaxDepth == 3
\* length of the period of a modelled random stream
TapeLen == 2

\* ------------------------------------------------------------------------
\* Characters and Python string built-ins
\* ------------------------------------------------------------------------
LetterSeq ==
  <<"a","b","c","d","e","f","g","h","i","j","k","l","m","n","o","p","q","r",
    "s","t","u","v","w","x","y","z","A","B","C","D","E","F","G","H","I","J",
    "K","L","M","N","O","P","Q","R","S","T","U","V","W","X","Y","Z">>
Letters == {LetterSeq[i] : i \in 1..Len(LetterSeq)}
Digits == {"0","1","2","3","4","5","6","7","8","9"}

IsSpace(c) == c \in {" ", "\t", "\n", "\r"}
IsNameStart(c) == c \in Letters \/ c = "_"

\* Values of the loaded YAML document (and the seed of an engine) are tagged
\* records: None, str, int, float (in hundredths), list (a sequence of
\* values) and dict (a sequence of <<key, value>> pairs in document order).
None == [t |-> "null"]
StrVal(s) == [t |-> "str", s |-> s]
IntVal(i) == [t |-> "int", i |-> i]
FloatVal(q) == [t |-> "float", q |-> q]
ListVal(xs) == [t |-> "list", xs |-> xs]
DictVal(kv) == [t |-> "dict", kv |-> kv]

\* the value of K for the value of r, r being evaluated once (the result of
\* a call is bound to a local name)
Bind(r, K(_)) == CHOOSE y \in {K(x) : x \in {r}} : TRUE

\* min(S) of a non-empty set of integers
MinOf(S) == CHOOSE x \in S : \A y \in S : x <= y

\* str.lstrip()
LStrip(s) ==
  Bind({i \in 1..Len(s) : ~IsSpace(s[i])}, LAMBDA ns :
    IF ns = {} THEN <<>> ELSE SubSeq(s, MinOf(ns), Len(s)))

\* str.rstrip()
RStrip(s) ==
  Bind({0 - i : i \in {k \in 1..Len(s) : ~IsSpace(s[k])}}, LAMBDA ns :
    IF ns = {} THEN <<>> ELSE SubSeq(s, 1, 0 - MinOf(ns)))

\* str.strip()
Strip(s) == Bind(s, LAMBDA t : Bind(LStrip(t), LAMBDA u : RStrip(u)))

\* does pat occur in s at position i
MatchAt(s, i, pat) ==
  /\ i >= 1
  /\ i + Len(pat) - 1 <= Len(s)
  /\ \A k \in 1..Len(pat) : s[i + k - 1] = pat[k]

\* str.find(pat) + 1: the first position of pat in s, 0 when there is none
Find(s, pat) ==
  Bind({i \in 1..Len(s) : MatchAt(s, i, pat)}, LAMBDA hits :
    IF hits = {} THEN 0 ELSE MinOf(hits))

RECURSIVE SplitFrom(_, _, _, _)
SplitFrom(s, i, cur, c) ==
  IF i > Len(s) THEN <<cur>>
  ELSE IF s[i] = c THEN <<cur>> \o SplitFrom(s, i + 1, <<>>, c)
  ELSE SplitFrom(s, i + 1, Append(cur, s[i]), c)

\* str.split(c) for a one-character separator
Split(s, c) == SplitFrom(s, 1, <<>>, c)

RECURSIVE ReplaceFrom(_, _, _, _)
ReplaceFrom(s, i, pat, by) ==
  IF i > Len(s) THEN <<>>
  ELSE IF MatchAt(s, i, pat) THEN by \o ReplaceFrom(s, i + Len(pat), pat, by)
  ELSE <<s[i]>> \o ReplaceFrom(s, i + 1, pat, by)

\* str.replace(pat, by) for a non-empty pat
Replace(s, pat, by) == ReplaceFrom(s, 1, pat, by)

RECURSIVE JoinFrom(_, _, _)
JoinFrom(xs, i, sep) ==
  IF i > Len(xs) THEN <<>>
  ELSE IF i = Len(xs) THEN xs[i]
  ELSE xs[i] \o sep \o JoinFrom(xs, i + 1, sep)

\* ", ".join(xs)
CommaJoin(xs) == JoinFrom(xs, 1, <<",", " ">>)

\* the placeholder "$value"
ValueToken == <<"$", "v", "a", "l", "u", "e">>

\* the text "__name__"
WildcardToken(name) == <<"_", "_">> \o name \o <<"_", "_">>

\* the end of the longest run of word characters (\w) that starts
\* at i (i - 1 when s[i] is no such character)
RECURSIVE WordRunEnd(_, _)
WordRunEnd(s, i) ==
  IF i <= Len(s) /\ (s[i] \in Letters \/ s[i] \in Digits \/ s[i] = "_") THEN WordRunEnd(s, i + 1) ELSE i - 1

\* ------------------------------------------------------------------------
\* float()
\* ------------------------------------------------------------------------
DigitVal(c) ==
  CASE c = "0" -> 0 [] c = "1" -> 1 [] c = "2" -> 2 [] c = "3" -> 3
    [] c = "4" -> 4 [] c = "5" -> 5 [] c = "6" -> 6 [] c = "7" -> 7
    [] c = "8" -> 8 [] c = "9" -> 9

\* the number the first n digits of s write
RECURSIVE DigitsValTo(_, _)
DigitsValTo(s, n) ==
  IF n = 0 THEN 0 ELSE 10 * DigitsValTo(s, n - 1) + DigitVal(s[n])

DigitsVal(s) == DigitsValTo(s, Len(s))

AllDigits(s) == \A k \in 1..Len(s) : s[k] \in Digits

\* float(text) of a text made of an optional sign and digits with at most
\* one "." and at most two digits after it, surrounded by optional white
\* space: [ok, v] with v in hundredths; ok is FALSE where float() raises
\* ValueError.  Exponents, "inf"/"nan" and digit-group underscores are
\* outside the alphabet of the modelled inputs.
FloatOf(neg, ip, fp) ==
  IF /\ AllDigits(ip) /\ AllDigits(fp)
     /\ Len(ip) + Len(fp) >= 1
     /\ Len(fp) <= 2
  THEN Bind(100 * DigitsVal(ip)
              + (IF Len(fp) = 1 THEN 10 * DigitsVal(fp) ELSE DigitsVal(fp)),
            LAMBDA mag : [ok |-> TRUE, v |-> IF neg THEN 0 - mag ELSE mag])
  ELSE [ok |-> FALSE, v |-> 0]

ParseFloat(text) ==
  Bind(Strip(text), LAMBDA s0 :
    Bind(IF s0 # <<>> /\ s0[1] \in {"+", "-"} THEN Tail(s0) ELSE s0, LAMBDA s :
      Bind(Find(s, <<".">>), LAMBDA dot :
        Bind(IF dot = 0 THEN <<s, <<>> >>
             ELSE <<SubSeq(s, 1, dot - 1), SubSeq(s, dot + 1, Len(s))>>,
             LAMBDA p : FloatOf(s0 # <<>> /\ s0[1] = "-", p[1], p[2])))))

\* ------------------------------------------------------------------------
\* str() and repr()
\* ------------------------------------------------------------------------
DigitChar(d) == <<"0","1","2","3","4","5","6","7","8","9">>[d + 1]

RECURSIVE NatText(_)
NatText(n) ==
  IF n < 10 THEN <<DigitChar(n)>> ELSE NatText(n \div 10) \o <<DigitChar(n % 10)>>

\* str(x) of a float of q hundredths
FloatText(q) ==
  LET mag == IF q < 0 THEN 0 - q ELSE q
      f == mag % 100
      ft == IF f % 10 = 0 THEN <<DigitChar(f \div 10)>>
            ELSE <<DigitChar(f \div 10), DigitChar(f % 10)>>
  IN (IF q < 0 THEN <<"-">> ELSE <<>>) \o NatText(mag \div 100) \o <<".">> \o ft

RECURSIVE PyRepr(_)
RECURSIVE ReprItems(_, _)
RECURSIVE ReprPairs(_, _)

ReprItems(xs, i) ==
  IF i > Len(xs) THEN <<>>
  ELSE PyRepr(xs[i]) \o (IF i < Len(xs) THEN <<",", " ">> ELSE <<>>)
         \o ReprItems(xs, i + 1)

ReprPairs(kv, i) ==
  IF i > Len(kv) THEN <<>>
  ELSE <<"'">> \o kv[i][1] \o <<"'", ":", " ">> \o PyRepr(kv[i][2])
         \o (IF i < Len(kv) THEN <<",", " ">> ELSE <<>>)
         \o ReprPairs(kv, i + 1)

\* repr(x); the texts of the modelled documents hold no quote and no
\* backslash, so a str is shown between single quotes as it is
PyRepr(x) ==
  CASE x.t = "null" -> <<"N", "o", "n", "e">>
    [] x.t = "str" -> <<"'">> \o x.s \o <<"'">>
    [] x.t = "int" -> IF x.i < 0 THEN <<"-">> \o NatText(0 - x.i)
                      ELSE NatText(x.i)
    [] x.t = "float" -> FloatText(x.q)
    [] x.t = "list" -> <<"[">> \o ReprItems(x.xs, 1) \o <<"]">>
    [] x.t = "dict" -> <<"{">> \o ReprPairs(x.kv, 1) \o <<"}">>

\* str(x)
PyStr(x) == IF x.t = "str" THEN x.s ELSE PyRepr(x)

\* float(x): [st, v] with v in hundredths
PyFloat(x) ==
  CASE x.t = "int" -> [st |-> "ok", v |-> 100 * x.i]
    [] x.t = "float" -> [st |-> "ok", v |-> x.q]
    [] x.t = "str" ->
         Bind(ParseFloat(x.s), LAMBDA f :
           IF f.ok THEN [st |-> "ok", v |-> f.v]
           ELSE [st |-> "ValueError", v |-> 0])
    [] OTHER -> [st |-> "TypeError", v |-> 0]

\* ------------------------------------------------------------------------
\* dict and iteration
\* ------------------------------------------------------------------------
\* the keys the parser reads from a mapping
Key ==
  [values |-> <<"v", "a", "l", "u", "e", "s">>,
   options |-> <<"o", "p", "t", "i", "o", "n", "s">>,
   choices |-> <<"c", "h", "o", "i", "c", "e", "s">>,
   choice |-> <<"c", "h", "o", "i", "c", "e">>,
   oneOf |-> <<"o", "n", "e", "O", "f">>,
   name |-> <<"n", "a", "m", "e">>,
   chance |-> <<"c", "h", "a", "n", "c", "e">>,
   weight |-> <<"w", "e", "i", "g", "h", "t">>,
   template |-> <<"t", "e", "m", "p", "l", "a", "t", "e">>,
   block_template |-> <<"b", "l", "o", "c", "k", "_", "t", "e", "m", "p", "l", "a", "t", "e">>,
   vars |-> <<"v", "a", "r", "s">>]

LIST_KEYS == <<Key.values, Key.options, Key.choices>>
CHOICE_KEYS == <<Key.choice, Key.oneOf>>

IsDict(x) == x.t = "dict"
IsStr(x) == x.t = "str"

\* k in d
Has(d, k) == \E i \in 1..Len(d.kv) : d.kv[i][1] = k

\* d.get(k, default)
Get(d, k, default) ==
  IF Has(d, k)
  THEN d.kv[CHOOSE i \in 1..Len(d.kv) : d.kv[i][1] = k][2]
  ELSE default

\* next((d[k] for k in keys if k in d), None)
FirstOf(d, keys) ==
  Bind({i \in 1..Len(keys) : Has(d, keys[i])}, LAMBDA hits :
    IF hits = {} THEN None ELSE Get(d, keys[MinOf(hits)], None))

\* the values a for loop over x visits: [st, xs]
Iter(x) ==
  CASE x.t = "list" -> [st |-> "ok", xs |-> x.xs]
    [] x.t = "str" -> [st |-> "ok", xs |-> [i \in 1..Len(x.s) |-> StrVal(<<x.s[i]>>)]]
    [] x.t = "dict" -> [st |-> "ok", xs |-> [i \in 1..Len(x.kv) |-> StrVal(x.kv[i][1])]]
    [] OTHER -> [st |-> "TypeError", xs |-> <<>>]

\* ------------------------------------------------------------------------
\* State
\* ------------------------------------------------------------------------
VARIABLES
  wcFiles,   \* the wildcard resources: <<directory, name>> -> lines of the file
  cache,     \* _WILDCARD_CACHE, the class attribute shared by all instances
  mt         \* seed -> the stream of values random.Random(seed) returns

\* the streams of values random() returns, in hundredths: 0.0, 0.25 and 0.75
Tapes == [0..(TapeLen - 1) -> {0, 25, 75}]

\* the engine context of a call: the instance's seed and directory, the
\* stream its random source yields and the position in it, the number of
\* values drawn so far in this call, and the wildcard cache
Ctx(seed, dir, tape, pos, c) ==
  [seed |-> seed, dir |-> dir, tape |-> tape, pos |-> pos, n |-> 0,
   cache |-> c]

Ok(v, e) == [v |-> v, e |-> e, st |-> "ok"]
Raise(kind, e) == [v |-> None, e |-> e, st |-> kind]

\* ------------------------------------------------------------------------
\* The random source
\* ------------------------------------------------------------------------
\* self.random.random()
Random(e) ==
  Ok(e.tape[e.pos], [e EXCEPT !.pos = (@ + 1) % TapeLen, !.n = @ + 1])

RECURSIVE SumTo(_, _)
SumTo(ws, i) == IF i = 0 THEN 0 ELSE SumTo(ws, i - 1) + ws[i]

\* self.random.choices(pop, ws)[0]: the cumulative weights are bisected at
\* random() * total, within the first n - 1 entries
Choices(pop, ws, e) ==
  Bind(<<Len(pop), SumTo(ws, Len(pop)), ws>>, LAMBDA nt :
    IF nt[1] = 0 THEN Raise("IndexError", e)
    ELSE IF nt[2] <= 0 THEN Raise("ValueError", e)
    ELSE LET r == Random(e)
             below == {i \in 1..(nt[1] - 1) :
                         SumTo(nt[3], i) * 100 <= r.v * nt[2]}
         IN Ok(pop[Cardinality(below) + 1], r.e))

\* self.random.randrange(n)
RandRange(n, e) ==
  LET r == Random(e) IN Ok((r.v * n) \div 100, r.e)

\* ------------------------------------------------------------------------
\* Wildcards
\* ------------------------------------------------------------------------
RECURSIVE NonBlankLines(_, _)
NonBlankLines(raw, i) ==
  IF i > Len(raw) THEN <<>>
  ELSE IF Strip(raw[i]) # <<>> THEN <<Strip(raw[i])>> \o NonBlankLines(raw, i + 1)
  ELSE NonBlankLines(raw, i + 1)

\* what _load_wildcard reads from the resource: the stripped non-blank
\* lines, [] when the file does not exist
ReadWildcard(dir, name) ==
  IF <<dir, name>> \in DOMAIN wcFiles
  THEN NonBlankLines(wcFiles[<<dir, name>>], 1)
  ELSE <<>>

\* _load_wildcard(name)
LoadWildcard(name, e) ==
  LET key == <<e.dir, name>>
  IN IF key \in DOMAIN e.cache THEN Ok(e.cache[key], e)
     ELSE LET lines == ReadWildcard(e.dir, name)
          IN Ok(lines, [e EXCEPT !.cache = (key :> lines) @@ e.cache])

CharCode(c) ==
  IF c \in Letters THEN CHOOSE i \in 1..Len(LetterSeq) : LetterSeq[i] = c
  ELSE IF c \in Digits THEN 60 + DigitVal(c)
  ELSE 99

RECURSIVE TextCode(_, _)
TextCode(s, i) ==
  IF i > Len(s) THEN 0 ELSE (i * CharCode(s[i]) + 3 * TextCode(s, i + 1)) % 1009

\* int.from_bytes(sha256(f"{seed}:{dir}:{name}").digest()[:8], "big"): a
\* fixed function of the three parts of the key, here an arithmetic mix
Sha256Head(seed, dir, name) ==
  (seed * 31 + (IF dir = "d1" THEN 5 ELSE 11) * 17 + TextCode(name, 1)) % 1009

\* _stable_index_for_wildcard(name, n) that takes the index from the random
\* stream whether the engine is seeded or not
StableIndexFromStream(name, n, e) == RandRange(n, e)

\* _stable_index_for_wildcard(name, n)
StableIndexForWildcard(name, n, e) ==
  IF e.seed = None THEN RandRange(n, e)
  ELSE Ok(Sha256Head(e.seed.i, e.dir, name) % n, e)

\* WILDCARD_PATTERN matched at position i of s: 0 when it does not match,
\* else the position of the last character of the name (the name is the
\* longest one that is still followed by "__")
WildcardNameEnd(s, i) ==
  IF ~MatchAt(s, i, <<"_", "_">>) THEN 0
  ELSE Bind({0 - k : k \in {x \in (i + 2)..(WordRunEnd(s, i + 2) - 2) :
                              MatchAt(s, x + 1, <<"_", "_">>)}},
            LAMBDA ks : IF ks = {} THEN 0 ELSE 0 - MinOf(ks))

\* the text txt followed by the result rest of the calls made after it
Prepend(txt, rest) ==
  Bind(rest, LAMBDA r : IF r.st # "ok" THEN r ELSE Ok(txt \o r.v, r.e))

RECURSIVE SubstWildcardsFrom(_, _, _)

\* repl for the token at i..k+2, ld being what _load_wildcard returned: an
\* empty list leaves the token as it is, else the line of the index that
\* _stable_index_for_wildcard gives replaces it
WildcardPick(s, i, k, ld) ==
  Bind(ld, LAMBDA l :
    IF l.v = <<>>
    THEN Prepend(SubSeq(s, i, k + 2), SubstWildcardsFrom(s, k + 3, l.e))
    ELSE Bind(StableIndexForWildcard(SubSeq(s, i + 2, k), Len(l.v), l.e),
           LAMBDA x :
             Prepend(l.v[x.v + 1], SubstWildcardsFrom(s, k + 3, x.e))))

\* _subst_wildcards(text), from position i on, k being the end of the name
\* of a token that starts at i
SubstWildcardsFrom(s, i, e) ==
  IF i > Len(s) THEN Ok(<<>>, e)
  ELSE Bind(WildcardNameEnd(s, i), LAMBDA k :
         IF k = 0 THEN Prepend(<<s[i]>>, SubstWildcardsFrom(s, i + 1, e))
         ELSE WildcardPick(s, i, k, LoadWildcard(SubSeq(s, i + 2, k), e)))

SubstWildcards(text, e) ==
  Bind(text, LAMBDA s : SubstWildcardsFrom(s, 1, e))

\* ------------------------------------------------------------------------
\* Variables
\* ------------------------------------------------------------------------
\* variables.get(name, default), the table being a function from names
Lookup(V, name, default) == IF name \in DOMAIN V THEN V[name] ELSE default

\* _subst_vars(text, variables), from position i on
RECURSIVE SubstVarsFrom(_, _, _)
SubstVarsFrom(s, i, V) ==
  IF i > Len(s) THEN <<>>
  ELSE IF s[i] = "$" /\ i < Len(s) /\ IsNameStart(s[i + 1])
  THEN LET j == WordRunEnd(s, i + 1)
       IN Lookup(V, SubSeq(s, i + 1, j), SubSeq(s, i, j))
            \o SubstVarsFrom(s, j + 1, V)
  ELSE <<s[i]>> \o SubstVarsFrom(s, i + 1, V)

SubstVars(text, V) == Bind(text, LAMBDA s : SubstVarsFrom(s, 1, V))

\* ------------------------------------------------------------------------
\* Expansion
\* ------------------------------------------------------------------------
\* BRACE_PATTERN matched at position i of s: 0 when it does not match, else
\* the position of the closing brace
BraceEnd(s, i) ==
  IF i > Len(s) \/ s[i] # "{" THEN 0
  ELSE Bind({j \in (i + 1)..Len(s) : s[j] \in {"{", "}"}}, LAMBDA bs :
         IF bs = {} THEN 0
         ELSE Bind(MinOf(bs), LAMBDA j :
                IF s[j] = "}" /\ j >= i + 2 THEN j ELSE 0))

\* the weight and the option text of one part of a brace group
BracePart(part) ==
  Bind(Find(part, <<":", ":">>), LAMBDA c :
    Bind(ParseFloat(SubSeq(part, 1, c - 1)), LAMBDA w :
      IF c # 0 /\ w.ok
      THEN [weight |-> w.v, text |-> SubSeq(part, c + 2, Len(part))]
      ELSE [weight |-> 100, text |-> part]))

RECURSIVE ExpandString(_, _, _, _)
RECURSIVE ExpandLoop(_, _, _, _, _)
RECURSIVE BraceSubFrom(_, _, _, _, _)
RECURSIVE ExpandOptions(_, _, _, _, _)

\* the loop of _choose_brace over the parts, from part k on: the expanded
\* option texts
ExpandOptions(parts, k, V, e, d) ==
  IF k > Len(parts) THEN Ok(<<>>, e)
  ELSE Bind(ExpandString(BracePart(parts[k]).text, V, e, d - 1), LAMBDA r :
         IF r.st # "ok" THEN r
         ELSE Prepend(<<r.v>>, ExpandOptions(parts, k + 1, V, r.e, d)))

\* _choose_brace(m, variables) for the text m.group(1) between the braces:
\* ps is [p.strip() for p in group.split("|") if p.strip()], and the result
\* is self.random.choices(opts, wgts)[0]
ChooseBrace(group, V, e, d) ==
  Bind(NonBlankLines(Split(group, "|"), 1), LAMBDA ps :
    Bind(ExpandOptions(ps, 1, V, e, d), LAMBDA o :
      IF o.st # "ok" THEN o
      ELSE Choices(o.v, [k \in 1..Len(ps) |-> BracePart(ps[k]).weight], o.e)))

\* the scan after the group that ends at j was replaced by ch
BraceRest(s, j, V, ch, d) ==
  Bind(ch, LAMBDA c :
    IF c.st # "ok" THEN c
    ELSE Prepend(c.v, BraceSubFrom(s, j + 1, V, c.e, d)))

\* BRACE_PATTERN.sub(lambda m: self._choose_brace(m, variables), s), from
\* position i on, j being the end of a group that starts at i
BraceSubFrom(s, i, V, e, d) ==
  IF i > Len(s) THEN Ok(<<>>, e)
  ELSE Bind(BraceEnd(s, i), LAMBDA j :
         IF j = 0 THEN Prepend(<<s[i]>>, BraceSubFrom(s, i + 1, V, e, d))
         ELSE BraceRest(s, j, V,
                ChooseBrace(SubSeq(s, i + 1, j - 1), V, e, d), d))

\* one iteration of the loop of expand_string: the brace groups, then
\* self._subst_wildcards(new_text)
ExpandPass(expanded, V, e, d) ==
  Bind(BraceSubFrom(expanded, 1, V, e, d), LAMBDA r :
    IF r.st # "ok" THEN r ELSE SubstWildcards(r.v, r.e))

\* the while loop of expand_string: an iteration returns the stripped text
\* when its passes gave the text it started from, else the loop iterates;
\* "NoFixedPoint" stands for a loop that has not returned after MaxPasses
\* iterations
ExpandLoop(expanded, V, e, fuel, d) ==
  IF fuel = 0 THEN Raise("NoFixedPoint", e)
  ELSE Bind(ExpandPass(expanded, V, e, d), LAMBDA new_text :
         IF new_text.st # "ok" THEN new_text
         ELSE IF new_text.v = expanded THEN Ok(Strip(new_text.v), new_text.e)
         ELSE ExpandLoop(new_text.v, V, new_text.e, fuel - 1, d))

\* expand_string(text, variables); d is the depth of nested calls that is
\* left, and a deeper nesting is reported as Python's RecursionError
ExpandString(text, V, e, d) ==
  IF d = 0 THEN Raise("RecursionError", e)
  ELSE Bind(SubstVars(text, V), LAMBDA expanded :
         ExpandLoop(expanded, V, e, MaxPasses, d))

\* ------------------------------------------------------------------------
\* Built-in calls
\* ------------------------------------------------------------------------
\* the numeric argument of FUNCTION_PATTERN: [-+]?\d*\.?\d+
IsRandArg(s0) ==
  LET s == IF s0 # <<>> /\ s0[1] \in {"+", "-"} THEN Tail(s0) ELSE s0
      dot == Find(s, <<".">>)
      fp == IF dot = 0 THEN s ELSE SubSeq(s, dot + 1, Len(s))
      ip == IF dot = 0 THEN <<>> ELSE SubSeq(s, 1, dot - 1)
  IN AllDigits(ip) /\ AllDigits(fp) /\ Len(fp) >= 1

\* FUNCTION_PATTERN.match(text): [ok, lo, hi], the two arguments as texts
MatchRand(text) ==
  LET t == IF text # <<>> /\ text[Len(text)] = "\n"
           THEN SubSeq(text, 1, Len(text) - 1) ELSE text
      framed == /\ MatchAt(t, 1, <<"r", "a", "n", "d", "(">>)
                /\ Len(t) >= 6
                /\ t[Len(t)] = ")"
      args == Split(SubSeq(t, 6, Len(t) - 1), ",")
  IN IF framed /\ Len(args) = 2
        /\ IsRandArg(Strip(args[1])) /\ IsRandArg(Strip(args[2]))
     THEN [ok |-> TRUE, lo |-> Strip(args[1]), hi |-> Strip(args[2])]
     ELSE [ok |-> FALSE, lo |-> <<>>, hi |-> <<>>]

\* round(x, 2) of x = num / 10000, in hundredths; an exact half goes to the
\* even neighbour (the binary float of the code may fall on either side of
\* it; the modelled arguments of rand produce no exact half)
Round2(num) ==
  LET q == num \div 100
      r == num % 100
  IN IF r > 50 \/ (r = 50 /\ q % 2 = 1) THEN q + 1 ELSE q

\* _eval_builtin(text), m being the match of FUNCTION_PATTERN, a the two
\* arguments as numbers and r the value drawn: the text is
\* str(round(self.random.uniform(lo, hi), 2))
EvalBuiltin(text, e) ==
  Bind(MatchRand(text), LAMBDA m :
    IF ~m.ok THEN Ok(text, e)
    ELSE Bind(<<ParseFloat(m.lo).v, ParseFloat(m.hi).v, Random(e)>>, LAMBDA a :
           Ok(FloatText(Round2(100 * a[1] + (a[2] - a[1]) * a[3].v)), a[3].e)))

\* ------------------------------------------------------------------------
\* choice/oneOf handling and item evaluation
\* ------------------------------------------------------------------------
\* the chance gate `self.random.random() > float(x.get("chance", 1))` of a
\* choice block, a structured option and a named item: skip is TRUE when
\* the gate fails; r is the value drawn and c the result of float()
Gate(x, e) ==
  Bind(<<Random(e), PyFloat(Get(x, Key.chance, IntVal(1)))>>, LAMBDA rc :
    IF rc[2].st # "ok" THEN [st |-> rc[2].st, e |-> rc[1].e, skip |-> FALSE]
    ELSE [st |-> "ok", e |-> rc[1].e, skip |-> rc[1].v > rc[2].v])

\* the gate of an option of a choice block: a plain option has none
OptionGate(opt, e) ==
  IF IsDict(opt) THEN Gate(opt, e) ELSE [st |-> "ok", e |-> e, skip |-> FALSE]

\* the weight of an option of a choice block
OptionWeight(opt) ==
  IF IsDict(opt) THEN PyFloat(Get(opt, Key.weight, IntVal(1)))
  ELSE [st |-> "ok", v |-> 100]

ChoiceFail(kind, e) == [st |-> kind, e |-> e, texts |-> <<>>, weights |-> <<>>]

\* texts.append(x); weights.append(w), before the options that follow
ChoiceAdd(x, w, rest) ==
  Bind(rest, LAMBDA r :
    IF r.st # "ok" THEN r
    ELSE [st |-> "ok", e |-> r.e, texts |-> <<x>> \o r.texts,
          weights |-> <<w>> \o r.weights])

RECURSIVE ChoiceOptions(_, _, _, _)

\* option k after its gate g was evaluated, w being float(weight): the
\* name of an option that passes is expanded and appended with its weight
ChoiceGated(opts, k, V, g, w) ==
  Bind(g, LAMBDA gate :
    IF gate.st # "ok" THEN ChoiceFail(gate.st, gate.e)
    ELSE IF gate.skip THEN ChoiceOptions(opts, k + 1, V, gate.e)
    ELSE IF w.st # "ok" THEN ChoiceFail(w.st, gate.e)
    ELSE Bind(ExpandString(PyStr(IF IsDict(opts[k])
                                 THEN Get(opts[k], Key.name, StrVal(<<>>))
                                 ELSE opts[k]), V, gate.e, MaxDepth),
           LAMBDA r :
             IF r.st # "ok" THEN ChoiceFail(r.st, r.e)
             ELSE ChoiceAdd(r.v, w.v, ChoiceOptions(opts, k + 1, V, r.e))))

\* the loop of _resolve_choice over the options, from option k on
ChoiceOptions(opts, k, V, e) ==
  IF k > Len(opts) THEN [st |-> "ok", e |-> e, texts |-> <<>>, weights |-> <<>>]
  ELSE ChoiceGated(opts, k, V, OptionGate(opts[k], e), OptionWeight(opts[k]))

\* expand_string, the result as a value
ExpandValue(text, V, e) ==
  Bind(ExpandString(text, V, e, MaxDepth), LAMBDA r :
    IF r.st # "ok" THEN r ELSE Ok(StrVal(r.v), r.e))

\* _resolve_choice after the loop over the options gave co: chosen is the
\* option drawn, and the template of the block is applied to it
ChoiceDraw(template, V, co) ==
  Bind(co, LAMBDA o :
    IF o.st # "ok" THEN Raise(o.st, o.e)
    ELSE IF o.texts = <<>> THEN Ok(None, o.e)
    ELSE Bind(Choices(o.texts, o.weights, o.e), LAMBDA chosen :
           IF chosen.st # "ok" THEN chosen
           ELSE IF ~IsStr(template) THEN Raise("AttributeError", chosen.e)
           ELSE ExpandValue(Replace(template.s, ValueToken, chosen.v), V,
                            chosen.e)))

\* _resolve_choice(block, variables): the value is StrVal(text), or None
\* when the block is skipped; gate is the gate of the block, options the
\* value of the first list key and it its iteration
ResolveChoice(block, V, e) ==
  Bind(Gate(block, e), LAMBDA gate :
    IF gate.st # "ok" THEN Raise(gate.st, gate.e)
    ELSE IF gate.skip THEN Ok(None, gate.e)
    ELSE Bind(FirstOf(block, LIST_KEYS), LAMBDA options :
      Bind(Iter(options), LAMBDA it :
        IF options = None THEN Raise("ValueError", gate.e)
        ELSE IF it.st # "ok" THEN Raise(it.st, gate.e)
        ELSE ChoiceDraw(Get(block, Key.template, StrVal(ValueToken)), V,
                        ChoiceOptions(it.xs, 1, V, gate.e)))))

\* isinstance(item, dict) and len(item) == 1
\*   and next(iter(item)) in self.CHOICE_KEYS
IsWrappedChoice(item) ==
  /\ IsDict(item)
  /\ Len(item.kv) = 1
  /\ \E i \in 1..Len(CHOICE_KEYS) : CHOICE_KEYS[i] = item.kv[1][1]

\* isinstance(item, dict) and any(k in item for k in self.CHOICE_KEYS)
HasChoiceKey(item) ==
  IsDict(item) /\ \E i \in 1..Len(CHOICE_KEYS) : Has(item, CHOICE_KEYS[i])

\* the block _eval_item passes to _resolve_choice
ChoiceBlock(item) ==
  IF IsWrappedChoice(item)
  THEN IF IsDict(item.kv[1][2]) THEN item.kv[1][2]
       ELSE DictVal(<< <<Key.values, item.kv[1][2]>> >>)
  ELSE item

\* _eval_item(item, variables): the value is StrVal(text), or None when the
\* item is skipped
EvalItem(item, V, e) ==
  IF IsWrappedChoice(item) \/ HasChoiceKey(item)
  THEN ResolveChoice(ChoiceBlock(item), V, e)
  ELSE IF IsDict(item) /\ Has(item, Key.name)
  THEN Bind(Gate(item, e), LAMBDA gate :
         IF gate.st # "ok" THEN Raise(gate.st, gate.e)
         ELSE IF gate.skip THEN Ok(None, gate.e)
         ELSE ExpandValue(PyStr(Get(item, Key.name, None)), V, gate.e))
  ELSE ExpandValue(PyStr(item), V, e)

\* ------------------------------------------------------------------------
\* Variable collection
\* ------------------------------------------------------------------------
RECURSIVE CollectFrom(_, _, _, _)

\* vars_[name] = val or "", b being what _eval_builtin returned
CollectSet(kv, k, V, b) ==
  Bind(b, LAMBDA val :
    Bind((kv[k][1] :> val.v) @@ V, LAMBDA vars_ :
      CollectFrom(kv, k + 1, vars_, val.e)))

\* the loop of _collect_vars over raw.items(), from entry k on; the value is
\* the table
CollectFrom(kv, k, V, e) ==
  IF k > Len(kv) THEN Ok(V, e)
  ELSE Bind(EvalItem(kv[k][2], V, e), LAMBDA r :
         IF r.st # "ok" THEN r
         ELSE IF r.v = None THEN CollectSet(kv, k, V, Ok(<<>>, r.e))
         ELSE CollectSet(kv, k, V, EvalBuiltin(r.v.s, r.e)))

\* base after _collect_vars(raw, base) returned vars_, were vars_ the dict
\* base itself: what is set in vars_ is set in base
BaseShared(base, vars_) == vars_

\* base after _collect_vars(raw, base) returned vars_: vars_ is dict(base), a
\* copy, so what is set in vars_ is not set in base
BaseAfter(base, vars_) == base

\* _collect_vars(raw, base)
CollectVars(raw, base, e) ==
  IF ~IsDict(raw) THEN Raise("AttributeError", e)
  ELSE CollectFrom(raw.kv, 1, base, e)

\* ------------------------------------------------------------------------
\* Sections
\* ------------------------------------------------------------------------
\* the truth value of a document value in a condition
Truthy(x) ==
  CASE x.t = "null" -> FALSE
    [] x.t = "str" -> x.s # <<>>
    [] x.t = "int" -> x.i # 0
    [] x.t = "float" -> x.q # 0
    [] x.t = "list" -> x.xs # <<>>
    [] x.t = "dict" -> x.kv # <<>>

\* expand_string(raw, variables) for a template taken from the document:
\* the regular expression substitution raises TypeError on what is no str
ExpandTemplate(raw, V, e) ==
  IF IsStr(raw) THEN ExpandValue(raw.s, V, e) ELSE Raise("TypeError", e)

\* block_tpl: None when raw_block_tpl is absent or falsy
BlockTemplate(raw, V, e) ==
  IF Truthy(raw) THEN ExpandTemplate(raw, V, e) ELSE Ok(None, e)

\* what the for loop over list_items visits: [st, xs]
ListItems(section) ==
  IF IsDict(section)
  THEN Bind(FirstOf(section, LIST_KEYS), LAMBDA li :
         IF li = None THEN [st |-> "ok", xs |-> <<>>] ELSE Iter(li))
  ELSE IF section.t = "list" THEN [st |-> "ok", xs |-> section.xs]
  ELSE [st |-> "ok", xs |-> <<section>>]

OpenFail(kind, e) ==
  [st |-> kind, e |-> e, vars |-> <<>>, item_tpl |-> <<>>, block_tpl |-> None,
   items |-> <<>>]

\* _parse_section up to its loop, for a section that is not None: the
\* table sv (the section-local vars extend the one passed), the two
\* templates it and bt (expanded from raw_item_tpl and raw_block_tpl) and
\* the items li
SectionOpen(section, V, e) ==
  Bind(IF IsDict(section) /\ Has(section, Key.vars)
       THEN CollectVars(Get(section, Key.vars, None), V, e)
       ELSE Ok(V, e), LAMBDA sv :
    IF sv.st # "ok" THEN OpenFail(sv.st, sv.e)
    ELSE Bind(ExpandTemplate(IF IsDict(section)
                             THEN Get(section, Key.template, StrVal(ValueToken))
                             ELSE StrVal(ValueToken), sv.v, sv.e), LAMBDA it :
      IF it.st # "ok" THEN OpenFail(it.st, it.e)
      ELSE Bind(BlockTemplate(IF IsDict(section)
                              THEN Get(section, Key.block_template, None)
                              ELSE None, sv.v, it.e), LAMBDA bt :
        IF bt.st # "ok" THEN OpenFail(bt.st, bt.e)
        ELSE Bind(ListItems(section), LAMBDA li :
          IF li.st # "ok" THEN OpenFail(li.st, bt.e)
          ELSE [st |-> "ok", e |-> bt.e, vars |-> sv.v, item_tpl |-> it.v.s,
                block_tpl |-> bt.v, items |-> li.xs]))))

\* the result of one step of the loop: the buffer and the merged lines
\* after it, ch being what _eval_item returned and le the context in which
\* the line of the step was expanded
StepOk(buffer, merged, ch, le, e) ==
  [st |-> "ok", e |-> e, buffer |-> buffer, merged |-> merged, ch |-> ch,
   le |-> le]

StepFail(kind, e) ==
  [st |-> kind, e |-> e, buffer |-> <<>>, merged |-> <<>>, ch |-> None,
   le |-> e]

\* expand_string(item_tpl.replace("$value", txt), variables)
TemplateLine(tpl, txt, V, e) ==
  ExpandString(Replace(tpl, ValueToken, txt), V, e, MaxDepth)

\* flush_buffer(): [st, e, merged]
FlushBuffer(buffer, merged, tpl, V, e) ==
  IF buffer = <<>> THEN [st |-> "ok", e |-> e, merged |-> merged]
  ELSE Bind(TemplateLine(tpl, CommaJoin(buffer), V, e), LAMBDA x :
         IF x.st # "ok" THEN [st |-> x.st, e |-> x.e, merged |-> merged]
         ELSE [st |-> "ok", e |-> x.e, merged |-> Append(merged, x.v)])

\* if buffer and is_choice
MergesNothing(buffer, itm) == FALSE
MergesChoice(buffer, itm) == buffer # <<>> /\ HasChoiceKey(itm)

\* the step of the loop for a plain string: it is buffered
BufferString(itm, buffer, merged, V, e) ==
  Bind(ExpandString(itm.s, V, e, MaxDepth), LAMBDA x :
    IF x.st # "ok" THEN StepFail(x.st, x.e)
    ELSE StepOk(Append(buffer, x.v), merged, None, x.e, x.e))

\* the step of the loop for a choice that follows buffered strings: its
\* text joins the buffer, which is flushed
MergeChoice(itm, buffer, merged, tpl, V, e) ==
  Bind(EvalItem(itm, V, e), LAMBDA ch :
    IF ch.st # "ok" THEN StepFail(ch.st, ch.e)
    ELSE Bind(FlushBuffer(IF ch.v = None THEN buffer
                          ELSE Append(buffer, ch.v.s), merged, tpl, V, ch.e),
              LAMBDA f :
                IF f.st # "ok" THEN StepFail(f.st, f.e)
                ELSE StepOk(<<>>, f.merged, ch.v, ch.e, f.e)))

\* the step of the loop for any other item: the buffer is flushed, then the
\* item, evaluated to ev, gives a line of its own unless ev is None
FlushThenItem(itm, buffer, merged, tpl, V, e) ==
  Bind(FlushBuffer(buffer, merged, tpl, V, e), LAMBDA f :
    IF f.st # "ok" THEN StepFail(f.st, f.e)
    ELSE Bind(EvalItem(itm, V, f.e), LAMBDA ev :
      IF ev.st # "ok" THEN StepFail(ev.st, ev.e)
      ELSE IF ev.v = None THEN StepOk(<<>>, f.merged, None, ev.e, ev.e)
      ELSE Bind(TemplateLine(tpl, ev.v.s, V, ev.e), LAMBDA x :
             IF x.st # "ok" THEN StepFail(x.st, x.e)
             ELSE StepOk(<<>>, Append(f.merged, x.v), ev.v, ev.e, x.e))))

\* all(isinstance(e, str) for e in list_items) and item_tpl == "$value"
\*   and block_tpl is None
SimplePlain(items, tpl, btpl) ==
  /\ \A k \in 1..Len(items) : IsStr(items[k])
  /\ tpl = ValueToken
  /\ btpl = None

\* _parse_section after its loop: the buffer is flushed with f, and the
\* lines returned are [st, e, lines]
SectionClose(items, buffer, merged, tpl, btpl, V, e) ==
  Bind(FlushBuffer(buffer, merged, tpl, V, e), LAMBDA f :
    IF f.st # "ok" THEN [st |-> f.st, e |-> f.e, lines |-> <<>>]
    ELSE IF SimplePlain(items, tpl, btpl)
    THEN [st |-> "ok", e |-> f.e, lines |-> <<CommaJoin(f.merged)>>]
    ELSE IF btpl # None
    THEN Bind(TemplateLine(btpl.s, CommaJoin(f.merged), V, f.e), LAMBDA x :
           IF x.st # "ok" THEN [st |-> x.st, e |-> x.e, lines |-> <<>>]
           ELSE [st |-> "ok", e |-> x.e, lines |-> <<x.v>>])
    ELSE [st |-> "ok", e |-> f.e, lines |-> f.merged])

\* ------------------------------------------------------------------------
\* State of the three machines
\* ------------------------------------------------------------------------
VARIABLES
  \* one caller of expand_string
  xEng,       \* the instance: [seed, dir, pos]
  xText,      \* the text passed to expand_string
  xVars,      \* the variable table passed to expand_string
  xExpanded,  \* the local variable expanded of the running call
  xPc,        \* "idle", "loop", "returned", "raised", "hung"
  xResult,    \* the text returned, or the name of the exception raised
  xFirst,     \* the text the first call returned, once it is passed again
  xCalls,     \* number of calls started
  \* the engine instances of one process
  insts,      \* the instances created so far, each [seed, dir, pos]
  cOwn,       \* <<i, name>> -> the list instance i read from the resource
  cLoad,      \* the last call of _load_wildcard and what it returned
  sSeen,      \* <<seed, dir, name, count>> -> the line first chosen for it
  sPick,      \* the last call of _subst_wildcards and what it chose
  \* one document flattened twice, each time by a new instance
  dDoc,       \* the document passed to parse_document
  dEng,       \* the instance of the running call
  dRun,       \* 1 or 2: which call is running
  dPc,        \* "idle", "sections", "walk", "done", "raised", "hung"
  dVars,      \* variables of parse_document: the global table
  dSec,       \* position in doc.items()
  dLocal,     \* variables of _parse_section: the table of the section
  dItemTpl,   \* item_tpl
  dBlockTpl,  \* block_tpl
  dItems,     \* list_items
  dIdx,       \* position of the loop in list_items
  dBuffer,    \* buffer
  dMerged,    \* merged
  dBlocks,    \* blocks
  dOut,       \* what the calls over so far returned or raised
  dRunTexts,  \* the expanded texts of the plain strings met since the last
              \* item that is no plain string
  dStep,      \* the last step of _parse_section and what it did
  dDraws      \* values drawn from the random source in the running call

xvars == <<xEng, xText, xVars, xExpanded, xPc, xResult, xFirst, xCalls>>
evars == <<insts, cOwn, cLoad, sSeen, sPick>>
dvars == <<dDoc, dEng, dRun, dPc, dVars, dSec, dLocal, dItemTpl, dBlockTpl,
           dItems, dIdx, dBuffer, dMerged, dBlocks, dOut, dRunTexts, dStep,
           dDraws>>
gvars == <<wcFiles, cache, mt>>
notx == <<evars, dvars>>
note == <<xvars, dvars>>
notd == <<xvars, evars>>
vars == <<wcFiles, cache, mt, xEng, xText, xVars, xExpanded, xPc, xResult,
          xFirst, xCalls, insts, cOwn, cLoad, sSeen, sPick, dDoc, dEng, dRun,
          dPc, dVars, dSec, dLocal, dItemTpl, dBlockTpl, dItems, dIdx,
          dBuffer, dMerged, dBlocks, dOut, dRunTexts, dStep, dDraws>>

\* no call of _load_wildcard, of _subst_wildcards yet
NoLoad == [i |-> 0]
NoPick == [i |-> 0]

\* the machines that a specification leaves aside stay as they start
IdleExpand ==
  /\ xEng = [seed |-> None, dir |-> "d1", pos |-> 0]
  /\ xText = <<>>
  /\ xVars = <<>>
  /\ xExpanded = <<>>
  /\ xPc = "idle"
  /\ xResult = <<>>
  /\ xFirst = <<>>
  /\ xCalls = 0

IdleEngine ==
  /\ insts = <<>>
  /\ cOwn = <<>>
  /\ cLoad = NoLoad
  /\ sSeen = <<>>
  /\ sPick = NoPick

\* no step of _parse_section yet
NoStep == [kind |-> "none"]

\* parse_document is not running: no section is open
NoCall ==
  /\ dRun = 1
  /\ dPc = "idle"
  /\ dVars = <<>>
  /\ dSec = 0
  /\ dLocal = <<>>
  /\ dItemTpl = <<>>
  /\ dBlockTpl = None
  /\ dItems = <<>>
  /\ dIdx = 0
  /\ dBuffer = <<>>
  /\ dMerged = <<>>
  /\ dRunTexts = <<>>
  /\ dBlocks = <<>>
  /\ dOut = <<>>
  /\ dStep = NoStep
  /\ dDraws = 0

IdleDoc ==
  /\ dDoc = DictVal(<<>>)
  /\ dEng = [seed |-> None, dir |-> "d1", pos |-> 0]
  /\ NoCall

\* longest text the loop of expand_string is followed to
MaxTextLen == 12

\* the streams of an instance whose random source is the ambient one even
\* when a seed is given
AmbientTapes(eng) == Tapes

\* the streams the random source of an instance can yield
TapesFor(eng) == IF eng.seed = None THEN Tapes ELSE {mt[eng.seed.i]}

\* the context of a call on instance eng
CtxOf(eng, tape) == Ctx(eng.seed, eng.dir, tape, eng.pos, cache)

\* the instance after a call that ended in context e (the ambient random
\* source of an unseeded instance keeps no position)
EngAfter(eng, e) ==
  [eng EXCEPT !.pos = IF eng.seed = None THEN 0 ELSE e.pos]

\* __init__(seed, wildcard_dir)
NewEngine(seed, dir) == [seed |-> seed, dir |-> dir, pos |-> 0]

\* ------------------------------------------------------------------------
\* Inputs of the expand_string machine
\* ------------------------------------------------------------------------
ExpandTexts ==
  {<<"a">>,
   <<" ", "a", " ">>,
   <<"$", "a">>,
   <<"$", "b">>,
   <<"{", "a", "|", "b", "}">>,
   <<"{", "}">>,
   <<"{", " ", "}">>,
   <<"{", "|", "}">>,
   <<"{", "2", ":", ":", "a", "|", "b", "}">>,
   <<"{", "q", ":", ":", "a", "}">>,
   <<"_", "_", "w", "_", "_">>,
   <<"_", "_", "p", "_", "_">>,
   <<"_", "_", "s", "_", "_">>,
   <<"_", "_", "m", "_", "_">>,
   <<"_", "_", "v", "_", "_">>,
   <<"_", "_", "r", "_", "_">>,
   <<"_", "_", "g", "_", "_">>,
   <<"$", "{", "a", "|", "a", "}">>,
   <<"{", "_", "_", "w", "_", "_", "|", "a", "}">>,
   <<"a", " ", "{", "x", "|", "y", "}">>,
   <<"_", "_", "w", "_", "_", ",", " ", "_", "_", "w", "_", "_">>,
   <<"{", "$", "a", "}">>,
   <<"_", "_", "{", "u", "|", "w", "}", "_", "_">>}

ExpandTables ==
  { <<>>,
    (<<"a">> :> <<"x">>),
    (<<"a">> :> <<"$", "b">>) @@ (<<"b">> :> <<"x">>),
    (<<"a">> :> <<"{", "x", "|", "y", "}">>) @@ (<<"c">> :> WildcardToken(<<"w">>)) }

\* the wildcard files of directory d1: lists of one and two lines, lists
\* whose lines hold wildcard tokens (of each other, of themselves), a
\* variable reference, a brace group, and a line that is a wildcard token
\* once its brace group is resolved
WildcardFiles1 ==
  (<<"d1", <<"w">> >> :> << <<"x">>, <<"y">> >>)
  @@ (<<"d1", <<"p">> >> :> << WildcardToken(<<"q">>) >>)
  @@ (<<"d1", <<"q">> >> :> << WildcardToken(<<"p">>) >>)
  @@ (<<"d1", <<"s">> >> :> << WildcardToken(<<"s">>), <<"x">> >>)
  @@ (<<"d1", <<"v">> >> :> << <<"$", "a">> >>)
  @@ (<<"d1", <<"r">> >> :> << <<" ", "{", "x", "|", "y", "}">>, <<" ">> >>)
  @@ (<<"d1", <<"g">> >> :> << WildcardToken(<<"g">>) \o <<" ", "x">> >>)
  @@ (<<"d1", <<"u">> >> :> << <<"_", "_", "{", "u", "|", "w", "}", "_", "_">> >>)

WildcardFiles2 ==
  (<<"d1", <<"w">> >> :> << <<"y">> >>)
  @@ (<<"d1", <<"s">> >> :> << <<"x">>, WildcardToken(<<"s">>) >>)

\* ------------------------------------------------------------------------
\* The expand_string machine: one action per iteration of the loop
\* ------------------------------------------------------------------------
InitExpand ==
  /\ wcFiles \in {WildcardFiles1, WildcardFiles2}
  /\ cache = <<>>
  /\ mt \in [{1} -> Tapes]
  /\ xEng \in {NewEngine(None, "d1"), NewEngine(IntVal(1), "d1")}
  /\ xText \in ExpandTexts
  /\ xVars \in ExpandTables
  /\ xExpanded = <<>>
  /\ xPc = "idle"
  /\ xResult = <<>>
  /\ xFirst = <<>>
  /\ xCalls = 0
  /\ IdleEngine
  /\ IdleDoc

\* expand_string(xText, xVars) is called: the variables are substituted
XCall ==
  /\ xPc = "idle"
  /\ xExpanded' = SubstVars(xText, xVars)
  /\ xPc' = "loop"
  /\ xCalls' = 1
  /\ UNCHANGED <<notx, gvars, xEng, xText, xVars, xResult, xFirst>>

\* the engine and the cache after a call on xEng that ended in context e
XAfter(e) ==
  /\ cache' = e.cache
  /\ xEng' = EngAfter(xEng, e)

\* an iteration of the loop that gave p changes the text: the loop goes on
XPassChanged ==
  /\ xPc = "loop"
  /\ \E tape \in TapesFor(xEng) :
       \E p \in {ExpandPass(xExpanded, xVars, CtxOf(xEng, tape), MaxDepth)} :
         /\ p.st = "ok"
         /\ p.v # xExpanded
         /\ Len(p.v) <= MaxTextLen
         /\ xExpanded' = p.v
         /\ XAfter(p.e)
         /\ UNCHANGED <<notx, wcFiles, mt, xText, xVars, xPc, xResult, xFirst,
                        xCalls>>

\* an iteration of the loop that gave p leaves the text as it is: the call
\* returns it, stripped
XPassStable ==
  /\ xPc = "loop"
  /\ \E tape \in TapesFor(xEng) :
       \E p \in {ExpandPass(xExpanded, xVars, CtxOf(xEng, tape), MaxDepth)} :
         /\ p.st = "ok"
         /\ p.v = xExpanded
         /\ xResult' = Strip(p.v)
         /\ xPc' = "returned"
         /\ XAfter(p.e)
         /\ UNCHANGED <<notx, wcFiles, mt, xText, xVars, xExpanded, xFirst,
                        xCalls>>

\* an iteration of the loop is left by an exception, or a nested call of
\* expand_string in it does not come back
XPassRaise ==
  /\ xPc = "loop"
  /\ \E tape \in TapesFor(xEng) :
       \E p \in {ExpandPass(xExpanded, xVars, CtxOf(xEng, tape), MaxDepth)} :
         /\ p.st # "ok"
         /\ xResult' = p.st
         /\ xPc' = IF p.st = "NoFixedPoint" THEN "hung" ELSE "raised"
         /\ XAfter(p.e)
         /\ UNCHANGED <<notx, wcFiles, mt, xText, xVars, xExpanded, xFirst,
                        xCalls>>

\* the text the first call returned is passed to expand_string again, with
\* the same table
XRecall ==
  /\ xPc = "returned"
  /\ xCalls = 1
  /\ xFirst' = xResult
  /\ xExpanded' = SubstVars(xResult, xVars)
  /\ xPc' = "loop"
  /\ xCalls' = 2
  /\ UNCHANGED <<notx, gvars, xEng, xText, xVars, xResult>>

NextExpand == XCall \/ XPassChanged \/ XPassStable \/ XPassRaise \/ XRecall

SpecExpand == InitExpand /\ [][NextExpand]_vars

\* the loop of a running call is scheduled until the call ends
FairSpecExpand ==
  SpecExpand /\ WF_vars(XPassChanged \/ XPassStable \/ XPassRaise)

\* ------------------------------------------------------------------------
\* Properties of expand_string
\* ------------------------------------------------------------------------
\* C1: every call of expand_string ends: a running loop leads to a returned
\* text or to a reported error.
C1_ExpandEnds == (xPc = "loop") ~> (xPc \in {"returned", "raised"})

\* s holds a reference $name to an entry of the table V
HasVarRef(s, V) ==
  \E i \in 1..(Len(s) - 1) :
    /\ s[i] = "$"
    /\ IsNameStart(s[i + 1])
    /\ SubSeq(s, i + 1, WordRunEnd(s, i + 1)) \in DOMAIN V

\* s holds a brace group: an opening brace, one or more characters that are
\* no braces, a closing brace
HasBraceGroup(s) ==
  \E i \in 1..Len(s) : \E j \in (i + 2)..Len(s) :
    /\ s[i] = "{"
    /\ s[j] = "}"
    /\ \A k \in (i + 1)..(j - 1) : s[k] \notin {"{", "}"}

\* C4 as stated: a text returned by expand_string(t, V) is returned
\* unchanged by expand_string(s, V), whatever the values of V hold.
C4_ReexpandSame == (xCalls = 2 /\ xPc = "returned") => xResult = xFirst

\* C4 as amended: on a seeded engine, a text s returned by
\* expand_string(t, V) that holds no reference $name to an entry of V and
\* no brace group is returned unchanged by expand_string(s, V): the second
\* call neither raises nor hangs, its loop starts from s and the first
\* iteration returns s.
C4_ReexpandSameWithoutRefs ==
  (/\ xCalls = 2 /\ xEng.seed # None
   /\ ~HasVarRef(xFirst, xVars) /\ ~HasBraceGroup(xFirst)) =>
    /\ xPc \in {"loop", "returned"}
    /\ xPc = "loop" => xExpanded = xFirst
    /\ xPc = "returned" => xResult = xFirst

\* a text that expansion changed has been expanded again to itself, on a
\* seeded engine with a table that is not empty
C4_Witness ==
  /\ xCalls = 2
  /\ xPc = "returned"
  /\ xEng.seed # None
  /\ xVars # <<>>
  /\ ~HasVarRef(xFirst, xVars)
  /\ ~HasBraceGroup(xFirst)
  /\ xFirst # xText
  /\ xResult = xFirst

\* s holds a brace group whose parts are all blank: an opening brace, then
\* only white space and "|", then a closing brace
HasBlankGroup(s) ==
  \E i \in 1..Len(s) : \E j \in (i + 1)..Len(s) :
    /\ s[i] = "{"
    /\ s[j] = "}"
    /\ \A k \in (i + 1)..(j - 1) : IsSpace(s[k]) \/ s[k] = "|"

\* C8: a call of expand_string whose text (the variables substituted) holds
\* a brace group with no viable option does not return a text: it is
\* reported as an error.
C8_BlankGroupRaises ==
  (xCalls = 1 /\ HasBlankGroup(SubstVars(xText, xVars))) => xPc # "returned"

\* ------------------------------------------------------------------------
\* The engine instances of one process
\* ------------------------------------------------------------------------
\* most instances created
MaxInst == 2

\* YAMLPromptTemplateParser(seed, wildcard_dir)
NewInstance(seed, dir) ==
  /\ Len(insts) < MaxInst
  /\ insts' = Append(insts, NewEngine(seed, dir))
  /\ UNCHANGED <<note, gvars, cOwn, cLoad, sSeen, sPick>>

\* the file of the wildcard name in directory dir is written
ChangeResource(dir, name, lines) ==
  /\ <<dir, name>> \in DOMAIN wcFiles => wcFiles[<<dir, name>>] # lines
  /\ wcFiles' = (<<dir, name>> :> lines) @@ wcFiles
  /\ UNCHANGED <<note, evars, cache, mt>>

\* _load_wildcard(name) on instance i returns ld; own is the list the
\* instance read itself for name, if it did (a sequence of no or one list),
\* and cur the contents of the resource
LoadCall(i, name) ==
  \E ld \in {LoadWildcard(name, CtxOf(insts[i], <<>>))} :
    /\ cache' = ld.e.cache
    /\ cLoad' = [i |-> i, name |-> name, got |-> ld.v,
                 own |-> IF <<i, name>> \in DOMAIN cOwn
                         THEN <<cOwn[<<i, name>>]>> ELSE <<>>,
                 cur |-> ReadWildcard(insts[i].dir, name)]
    /\ cOwn' = IF <<insts[i].dir, name>> \in DOMAIN cache THEN cOwn
               ELSE (<<i, name>> :> ld.v) @@ cOwn
    /\ UNCHANGED <<note, wcFiles, mt, insts, sSeen, sPick>>

\* self.random.random() on instance i: a draw made for a choice, a chance
\* gate or rand
DrawCall(i) ==
  /\ \E tape \in TapesFor(insts[i]) :
       \E r \in {Random(CtxOf(insts[i], tape))} :
         insts' = [insts EXCEPT ![i] = EngAfter(insts[i], r.e)]
  /\ UNCHANGED <<note, gvars, cOwn, cLoad, sSeen, sPick>>

\* the parts of a text between its commas, stripped
Parts(text) ==
  Bind(Split(text, ","), LAMBDA ps : [k \in 1..Len(ps) |-> Strip(ps[k])])

\* the key under which the choice made for occurrence k of a call is kept
PickKey(pk, k) == <<pk.seed, pk.dir, pk.names[k], pk.counts[k]>>

\* the choices known once the call pk on a seeded instance is over: those
\* known before it, and for a key met for the first time the line of its
\* first occurrence
SeenAfter(pk) ==
  IF pk.seed = None THEN sSeen
  ELSE Bind({PickKey(pk, k) : k \in 1..Len(pk.names)}, LAMBDA keys :
    [key \in (DOMAIN sSeen) \cup keys |->
       IF key \in DOMAIN sSeen THEN sSeen[key]
       ELSE pk.lines[MinOf({k \in 1..Len(pk.names) : PickKey(pk, k) = key})]])

\* the call of _subst_wildcards(text) on instance i that gave r, names
\* being the names of the wildcard tokens of the text, which is made of
\* tokens and commas
PickOf(i, text, r) ==
  Bind([k \in 1..Len(Parts(text)) |->
          SubSeq(Parts(text)[k], 3, Len(Parts(text)[k]) - 2)], LAMBDA names :
    [i |-> i, seed |-> insts[i].seed, dir |-> insts[i].dir,
     names |-> names, lines |-> Parts(r.v),
     counts |-> [k \in 1..Len(names) |->
                   Len(r.e.cache[<<insts[i].dir, names[k]>>])],
     known |-> {k \in 1..Len(names) :
                  \E key \in DOMAIN sSeen :
                    /\ key[1] = insts[i].seed /\ key[2] = insts[i].dir
                    /\ key[3] = names[k]},
     n |-> r.e.n, pos0 |-> insts[i].pos, pos1 |-> r.e.pos])

\* _subst_wildcards(text) on instance i
SubstCall(i, text) ==
  \E tape \in TapesFor(insts[i]) :
    \E r \in {SubstWildcards(text, CtxOf(insts[i], tape))} :
      \E pk \in {PickOf(i, text, r)} :
        /\ sPick' = pk
        /\ sSeen' = SeenAfter(pk)
        /\ cache' = r.e.cache
        /\ insts' = [insts EXCEPT ![i] = EngAfter(insts[i], r.e)]
        /\ UNCHANGED <<note, wcFiles, mt, cOwn, cLoad>>

\* ------------------------------------------------------------------------
\* The wildcard cache: instances are created, load lists, and the files
\* change meanwhile
\* ------------------------------------------------------------------------
CacheDirs == {"d1", "d2"}
CacheNames == {<<"w">>}

\* the file w.txt exists in directory d1 only
InitCache ==
  /\ wcFiles = (<<"d1", <<"w">> >> :> << <<"x">>, <<"y">> >>)
  /\ cache = <<>>
  /\ mt = [seed \in {1} |-> [k \in 0..(TapeLen - 1) |-> 0]]
  /\ IdleExpand
  /\ IdleEngine
  /\ IdleDoc

NextCache ==
  \/ \E dir \in CacheDirs : NewInstance(IntVal(1), dir)
  \/ \E i \in 1..Len(insts) : \E name \in CacheNames : LoadCall(i, name)
  \/ \E dir \in CacheDirs : \E name \in CacheNames :
       \E lines \in {<< <<"x">>, <<"y">> >>, << <<" ", "y">>, <<" ">> >>} :
         ChangeResource(dir, name, lines)

SpecCache == InitCache /\ [][NextCache]_vars

\* C7: what _load_wildcard returns to an instance is the list this instance
\* read itself on an earlier load of the name, or the contents of the
\* resource at the time of the call.
C7_OwnCache ==
  cLoad # NoLoad =>
    \/ cLoad.got = cLoad.cur
    \/ cLoad.own # <<>> /\ cLoad.got = cLoad.own[1]

\* ------------------------------------------------------------------------
\* Wildcard choices: instances draw from their random source and resolve
\* wildcard tokens
\* ------------------------------------------------------------------------
\* the texts whose tokens are resolved: one name twice, and two names
PickTexts ==
  { WildcardToken(<<"w">>) \o <<",", " ">> \o WildcardToken(<<"w">>),
    WildcardToken(<<"t">>) \o <<",", " ">> \o WildcardToken(<<"w">>) }

\* two instances of the same seed have been created, each on one of two
\* directories that hold lists of two and of three lines
InitPick ==
  /\ wcFiles = (<<"d1", <<"w">> >> :> << <<"x">>, <<"y">> >>)
               @@ (<<"d1", <<"t">> >> :> << <<"x">>, <<"y">>, <<"z">> >>)
               @@ (<<"d2", <<"w">> >> :> << <<"x">>, <<"y">>, <<"z">> >>)
               @@ (<<"d2", <<"t">> >> :> << <<"x">>, <<"y">> >>)
  /\ cache = <<>>
  /\ mt \in [{1} -> Tapes]
  /\ IdleExpand
  /\ insts \in [1..2 -> {NewEngine(IntVal(1), dir) : dir \in {"d1", "d2"}}]
  /\ cOwn = <<>>
  /\ cLoad = NoLoad
  /\ sSeen = <<>>
  /\ sPick = NoPick
  /\ IdleDoc

NextPick ==
  \/ \E i \in 1..Len(insts) : DrawCall(i)
  \/ \E i \in 1..Len(insts) : \E text \in PickTexts : SubstCall(i, text)

SpecPick == InitPick /\ [][NextPick]_vars

\* C3: on a seeded instance, resolving the wildcard tokens of a text takes
\* no value from the random stream, and the line chosen for a token is the
\* one chosen for the same seed, directory, name and number of lines at its
\* first occurrence, in this call or in an earlier one on any instance.
C3_StableIndex ==
  (sPick # NoPick /\ sPick.seed # None) =>
    /\ sPick.n = 0
    /\ sPick.pos1 = sPick.pos0
    /\ \A k \in 1..Len(sPick.names) :
         sPick.lines[k] = sSeen[PickKey(sPick, k)]

\* the second instance of a seed and directory, after draws from its
\* stream, has resolved a token twice in a text, the choice for it being
\* known from an earlier call
C3_Witness ==
  /\ sPick # NoPick
  /\ sPick.seed # None
  /\ sPick.i = 2
  /\ sPick.pos0 > 0
  /\ Len(sPick.names) = 2
  /\ sPick.names[1] = sPick.names[2]
  /\ sPick.known = {1, 2}
  /\ \A k \in 1..2 : sPick.lines[k] = sSeen[PickKey(sPick, k)]

\* ------------------------------------------------------------------------
\* Inputs of the parse_document machine
\* ------------------------------------------------------------------------
OneOf(v) == DictVal(<< <<Key.oneOf, v>> >>)
Named(name, chance) ==
  DictVal(<< <<Key.name, StrVal(name)>>, <<Key.chance, chance>> >>)
Weighted(name, weight) ==
  DictVal(<< <<Key.name, StrVal(name)>>, <<Key.weight, weight>> >>)
Gated(chance, values) ==
  DictVal(<< <<Key.chance, chance>>, <<Key.values, ListVal(values)>> >>)
Doc1(section) == DictVal(<< << <<"s">>, section>> >>)

DocSeq ==
  <<
    \* strings then a choice: the choice joins the buffer
    Doc1(ListVal(<<StrVal(<<"a">>), StrVal(<<"b">>), OneOf(ListVal(<<StrVal(<<"x">>), StrVal(<<"y">>)>>))>>)),
    \* a choice first, a string last
    Doc1(ListVal(<<OneOf(ListVal(<<StrVal(<<"x">>), StrVal(<<"y">>)>>)), StrVal(<<"a">>)>>)),
    \* a named item of chance 0 between strings
    Doc1(ListVal(<<StrVal(<<"a">>), Named(<<"n">>, IntVal(0)), StrVal(<<"b">>)>>)),
    \* a named item of chance 1
    Doc1(ListVal(<<Named(<<"n">>, IntVal(1))>>)),
    \* a choice block of chance 0 after a string
    Doc1(ListVal(<<StrVal(<<"a">>), OneOf(Gated(IntVal(0), <<StrVal(<<"x">>)>>))>>)),
    \* a choice block of chance 1 after a string
    Doc1(ListVal(<<StrVal(<<"a">>), OneOf(Gated(IntVal(1), <<StrVal(<<"x">>)>>))>>)),
    \* a structured option of chance 0
    Doc1(ListVal(<<OneOf(ListVal(<<Named(<<"z">>, IntVal(0)), StrVal(<<"y">>)>>))>>)),
    \* a structured option of chance 1
    Doc1(ListVal(<<OneOf(ListVal(<<Named(<<"z">>, IntVal(1))>>))>>)),
    \* a chance of a block that is no number
    Doc1(ListVal(<<OneOf(Gated(StrVal(<<"q">>), <<StrVal(<<"x">>)>>))>>)),
    \* a chance of a named item that is no number
    Doc1(ListVal(<<Named(<<"n">>, StrVal(<<"q">>))>>)),
    \* a weight of a structured option that is no number
    Doc1(ListVal(<<OneOf(ListVal(<<Weighted(<<"x">>, StrVal(<<"q">>))>>))>>)),
    \* an empty sequence
    Doc1(ListVal(<<>>)),
    \* a null section
    Doc1(None),
    \* a mapping with no list-bearing key
    Doc1(DictVal(<<>>)),
    \* an empty list under a list-bearing key
    Doc1(DictVal(<<<<Key.values, ListVal(<<>>)>>>>)),
    \* no items, an item template
    Doc1(DictVal(<<<<Key.template, StrVal(<<"T", " ", "$", "v", "a", "l", "u", "e">>)>>>>)),
    \* no items, a block template
    Doc1(DictVal(<<<<Key.block_template, StrVal(<<"B", " ", "$", "v", "a", "l", "u", "e">>)>>>>)),
    \* global and local variables, an item template
    DictVal(<<<<Key.vars, DictVal(<<<<<<"c">>, StrVal(<<"b">>)>>>>)>>, <<<<"s">>, DictVal(<<<<Key.vars, DictVal(<<<<<<"d">>, StrVal(<<"x">>)>>>>)>>, <<Key.template, StrVal(<<"<", "$", "v", "a", "l", "u", "e", ">">>)>>, <<Key.values, ListVal(<<StrVal(<<"a", " ", "$", "c">>), OneOf(ListVal(<<StrVal(<<"$", "d">>), StrVal(<<"y">>)>>))>>)>>>>)>>>>),
    \* a bare scalar
    Doc1(StrVal(<<"a">>)),
    \* a number
    Doc1(IntVal(5)),
    \* a number under a list-bearing key
    Doc1(DictVal(<<<<Key.values, IntVal(5)>>>>)),
    \* a brace group and a wildcard token
    Doc1(ListVal(<<StrVal(<<"{", "x", "|", "y", "}">>), StrVal(<<"_", "_", "w", "_", "_">>)>>)),
    \* two sections
    DictVal(<<<<<<"s">>, ListVal(<<StrVal(<<"a">>)>>)>>, <<<<"t">>, ListVal(<<OneOf(ListVal(<<StrVal(<<"x">>), StrVal(<<"y">>)>>)), OneOf(ListVal(<<StrVal(<<"x">>), StrVal(<<"y">>)>>))>>)>>>>),
    \* two runs of strings, each followed by a choice
    Doc1(ListVal(<<StrVal(<<"a">>), OneOf(ListVal(<<StrVal(<<"x">>), StrVal(<<"y">>)>>)), StrVal(<<"b">>), StrVal(<<"a">>), DictVal(<<<<Key.choice, ListVal(<<StrVal(<<"y">>)>>)>>>>)>>)),
    \* a section whose local vars override a global name and define a new
    \* one, between two sections that refer to both names
    DictVal(<<<<Key.vars, DictVal(<<<<<<"c">>, StrVal(<<"b">>)>>>>)>>, <<<<"t">>, ListVal(<<StrVal(<<"$", "c", " ", "$", "d">>)>>)>>, <<<<"s">>, DictVal(<<<<Key.vars, DictVal(<<<<<<"c">>, StrVal(<<"x">>)>>, <<<<"d">>, StrVal(<<"y">>)>>>>)>>, <<Key.values, ListVal(<<StrVal(<<"$", "c", " ", "$", "d">>)>>)>>>>)>>, <<<<"u">>, ListVal(<<StrVal(<<"$", "c", " ", "$", "d">>)>>)>>>>)
  >>

\* ------------------------------------------------------------------------
\* The parse_document machine: one action per step of parse_document and of
\* the loop of _parse_section; the document is flattened by one instance,
\* then by a second one created with the same seed and directory
\* ------------------------------------------------------------------------
InitDoc ==
  /\ wcFiles = WildcardFiles1
  /\ cache = <<>>
  /\ mt \in [{1} -> Tapes]
  /\ IdleExpand
  /\ IdleEngine
  /\ dDoc \in {DocSeq[i] : i \in 1..Len(DocSeq)}
  /\ dEng \in {NewEngine(None, "d1"), NewEngine(IntVal(1), "d1")}
  /\ NoCall

\* the instance, the cache and the count of draws after a step that ended
\* in context e
DAfter(e) ==
  /\ cache' = e.cache
  /\ dEng' = EngAfter(dEng, e)
  /\ dDraws' = dDraws + e.n

\* the call is left by an exception (or by a loop that does not end)
DRaise(kind) ==
  /\ dPc' = IF kind = "NoFixedPoint" THEN "hung" ELSE "raised"
  /\ dOut' = Append(dOut, [st |-> kind, blocks |-> <<>>])

\* variables = self._collect_vars(doc.get("vars", {}), {}) gave r
DocStart ==
  /\ dPc = "idle"
  /\ \E tape \in TapesFor(dEng) :
       \E r \in {CollectVars(Get(dDoc, Key.vars, DictVal(<<>>)), <<>>,
                             CtxOf(dEng, tape))} :
         /\ DAfter(r.e)
         /\ IF r.st = "ok"
            THEN dVars' = r.v /\ dSec' = 1 /\ dPc' = "sections" /\ dOut' = dOut
            ELSE dVars' = dVars /\ dSec' = dSec /\ DRaise(r.st)
         /\ UNCHANGED <<notd, wcFiles, mt, dDoc, dRun, dLocal, dItemTpl, dBlockTpl,
                        dItems, dIdx, dBuffer, dMerged, dBlocks, dRunTexts, dStep>>

\* the loop of parse_document is at an entry of the document
AtEntry == dPc = "sections" /\ dSec <= Len(dDoc.kv)

\* if name == "vars": continue
SkipVars ==
  /\ AtEntry
  /\ dDoc.kv[dSec][1] = Key.vars
  /\ dSec' = dSec + 1
  /\ UNCHANGED <<notd, gvars, dDoc, dEng, dRun, dPc, dVars, dLocal, dItemTpl,
                 dBlockTpl, dItems, dIdx, dBuffer, dMerged, dBlocks, dOut,
                 dRunTexts, dStep, dDraws>>

\* _parse_section(None, variables) returns [], which is no block
SectionNull ==
  /\ AtEntry
  /\ dDoc.kv[dSec][1] # Key.vars
  /\ dDoc.kv[dSec][2] = None
  /\ dSec' = dSec + 1
  /\ dStep' = [kind |-> "null", appended |-> FALSE]
  /\ UNCHANGED <<notd, gvars, dDoc, dEng, dRun, dPc, dVars, dLocal, dItemTpl,
                 dBlockTpl, dItems, dIdx, dBuffer, dMerged, dBlocks, dOut,
                 dRunTexts, dDraws>>

\* _parse_section up to its loop gave r
SectionBegin ==
  /\ AtEntry
  /\ dDoc.kv[dSec][1] # Key.vars
  /\ dDoc.kv[dSec][2] # None
  /\ \E tape \in TapesFor(dEng) :
       \E r \in {SectionOpen(dDoc.kv[dSec][2], dVars, CtxOf(dEng, tape))} :
         /\ DAfter(r.e)
         /\ dStep' = [kind |-> "open", st |-> r.st]
         /\ IF r.st = "ok"
            THEN /\ dLocal' = r.vars
                 /\ dItemTpl' = r.item_tpl
                 /\ dBlockTpl' = r.block_tpl
                 /\ dItems' = r.items
                 /\ dIdx' = 1
                 /\ dPc' = "walk"
                 /\ dOut' = dOut
                 /\ dVars' = BaseAfter(dVars, r.vars)
            ELSE /\ DRaise(r.st)
                 /\ UNCHANGED <<dLocal, dItemTpl, dBlockTpl, dItems, dIdx, dVars>>
         /\ UNCHANGED <<notd, wcFiles, mt, dDoc, dRun, dSec, dBuffer, dMerged,
                        dBlocks, dRunTexts>>

\* the loop of _parse_section is at an item
AtItem == dPc = "walk" /\ dIdx <= Len(dItems)

\* one step of the loop, for the item itm, gave r
Walked(kind, itm, r) ==
  /\ DAfter(r.e)
  /\ dStep' = [kind |-> kind, st |-> r.st, item |-> itm, run |-> dRunTexts,
               ch |-> r.ch, le |-> r.le, tpl |-> dItemTpl, vars |-> dLocal,
               out |-> IF r.st = "ok"
                       THEN SubSeq(r.merged, Len(dMerged) + 1, Len(r.merged))
                       ELSE <<>>]
  /\ IF r.st = "ok"
     THEN /\ dBuffer' = r.buffer
          /\ dMerged' = r.merged
          /\ dIdx' = dIdx + 1
          /\ dRunTexts' = IF kind = "string"
                          THEN Append(dRunTexts, r.buffer[Len(r.buffer)])
                          ELSE <<>>
          /\ UNCHANGED <<dPc, dOut>>
     ELSE /\ DRaise(r.st)
          /\ UNCHANGED <<dBuffer, dMerged, dIdx, dRunTexts>>
  /\ UNCHANGED <<notd, wcFiles, mt, dDoc, dRun, dVars, dSec, dLocal, dItemTpl,
                 dBlockTpl, dItems, dBlocks>>

WalkString ==
  /\ AtItem
  /\ IsStr(dItems[dIdx])
  /\ \E tape \in TapesFor(dEng) :
       \E r \in {BufferString(dItems[dIdx], dBuffer, dMerged, dLocal,
                              CtxOf(dEng, tape))} :
         Walked("string", dItems[dIdx], r)

WalkMerge ==
  /\ AtItem
  /\ ~IsStr(dItems[dIdx])
  /\ MergesChoice(dBuffer, dItems[dIdx])
  /\ \E tape \in TapesFor(dEng) :
       \E r \in {MergeChoice(dItems[dIdx], dBuffer, dMerged, dItemTpl, dLocal,
                             CtxOf(dEng, tape))} :
         Walked("merge", dItems[dIdx], r)

WalkOther ==
  /\ AtItem
  /\ ~IsStr(dItems[dIdx])
  /\ ~MergesChoice(dBuffer, dItems[dIdx])
  /\ \E tape \in TapesFor(dEng) :
       \E r \in {FlushThenItem(dItems[dIdx], dBuffer, dMerged, dItemTpl,
                               dLocal, CtxOf(dEng, tape))} :
         Walked("other", dItems[dIdx], r)

\* _parse_section returns
LeaveSection ==
  /\ dLocal' = <<>>
  /\ dItemTpl' = <<>>
  /\ dBlockTpl' = None
  /\ dItems' = <<>>
  /\ dIdx' = 0
  /\ dBuffer' = <<>>
  /\ dMerged' = <<>>
  /\ dRunTexts' = <<>>

\* the end of _parse_section gave r: if lines: blocks.append(lines)
SectionEnd ==
  /\ dPc = "walk"
  /\ dIdx > Len(dItems)
  /\ \E tape \in TapesFor(dEng) :
       \E r \in {SectionClose(dItems, dBuffer, dMerged, dItemTpl, dBlockTpl,
                              dLocal, CtxOf(dEng, tape))} :
         /\ DAfter(r.e)
         /\ dStep' = [kind |-> "end", st |-> r.st, nitems |-> Len(dItems),
                      btpl |-> dBlockTpl, lines |-> r.lines,
                      appended |-> r.st = "ok" /\ r.lines # <<>>]
         /\ IF r.st = "ok"
            THEN /\ dBlocks' = IF r.lines # <<>> THEN Append(dBlocks, r.lines)
                               ELSE dBlocks
                 /\ dSec' = dSec + 1
                 /\ dPc' = "sections"
                 /\ dOut' = dOut
                 /\ LeaveSection
            ELSE /\ DRaise(r.st)
                 /\ UNCHANGED <<dBlocks, dSec, dLocal, dItemTpl, dBlockTpl, dItems,
                                dIdx, dBuffer, dMerged, dRunTexts>>
         /\ UNCHANGED <<notd, wcFiles, mt, dDoc, dRun, dVars>>

\* return blocks
DocReturn ==
  /\ dPc = "sections"
  /\ dSec > Len(dDoc.kv)
  /\ dOut' = Append(dOut, [st |-> "ok", blocks |-> dBlocks])
  /\ dPc' = "done"
  /\ UNCHANGED <<notd, gvars, dDoc, dEng, dRun, dVars, dSec, dLocal, dItemTpl,
                 dBlockTpl, dItems, dIdx, dBuffer, dMerged, dBlocks,
                 dRunTexts, dStep, dDraws>>

\* a second instance is created with the seed and the directory of the
\* first, a seeded one, and the document is passed to its parse_document
SecondRun ==
  /\ dPc \in {"done", "raised"}
  /\ dRun = 1
  /\ dEng.seed # None
  /\ dRun' = 2
  /\ dEng' = NewEngine(dEng.seed, dEng.dir)
  /\ dPc' = "idle"
  /\ dVars' = <<>>
  /\ dSec' = 0
  /\ LeaveSection
  /\ dBlocks' = <<>>
  /\ dStep' = NoStep
  /\ dDraws' = 0
  /\ UNCHANGED <<notd, gvars, dDoc, dOut>>

NextDoc ==
  \/ DocStart
  \/ SkipVars
  \/ SectionNull
  \/ SectionBegin
  \/ WalkString
  \/ WalkMerge
  \/ WalkOther
  \/ SectionEnd
  \/ DocReturn
  \/ SecondRun

SpecDoc == InitDoc /\ [][NextDoc]_vars

\* ------------------------------------------------------------------------
\* Properties of parse_document
\* ------------------------------------------------------------------------
\* C2: two instances created with the same seed and directory that flatten
\* the same document against the same wildcard files return the same blocks
\* (or raise the same error).
C2_SeededSame ==
  (dRun = 2 /\ dPc \in {"done", "raised"} /\ dEng.seed # None) =>
    dOut[2] = dOut[1]

\* both calls of seeded instances returned the same block, after values
\* were drawn from the random stream in the second call
C2_Witness ==
  /\ dRun = 2
  /\ dPc = "done"
  /\ dEng.seed # None
  /\ dDraws > 0
  /\ Len(dOut) = 2
  /\ dOut[2] = dOut[1]
  /\ dOut[2].blocks # <<>>

\* the last step of the loop evaluated an item with _eval_item
ItemEvaluated == dStep.kind \in {"merge", "other"}

\* x is a mapping whose chance is the integer c
ChanceIs(x, c) == IsDict(x) /\ Get(x, Key.chance, None) = IntVal(c)

\* the options of the choice block an item stands for
BlockOptions(item) ==
  Bind(FirstOf(ChoiceBlock(item), LIST_KEYS), LAMBDA li :
    IF li # None /\ li.t = "list" THEN li.xs ELSE <<>>)

\* the gate of the item is one of chance c: the item is a choice block of
\* chance c, or a named item of chance c
GateIs(item, c) ==
  IF HasChoiceKey(item) THEN ChanceIs(ChoiceBlock(item), c)
  ELSE IsDict(item) /\ Has(item, Key.name) /\ ChanceIs(item, c)

\* the item passes its gate and has something to give: a named item, or a
\* choice block with a plain option
GivesText(item) ==
  IF HasChoiceKey(item)
  THEN \E k \in 1..Len(BlockOptions(item)) : IsStr(BlockOptions(item)[k])
  ELSE TRUE

\* C5: an item whose gate has chance 0 gives no text, a structured option
\* of chance 0 is never the text of its choice block, and an item whose gate
\* has chance 1 gives its text, whatever the random source returns.
C5_ChanceGates ==
  (ItemEvaluated /\ dStep.st = "ok") =>
    /\ GateIs(dStep.item, 0) => dStep.ch = None
    /\ GateIs(dStep.item, 1) /\ GivesText(dStep.item) => dStep.ch # None
    /\ HasChoiceKey(dStep.item) =>
         \A k \in 1..Len(BlockOptions(dStep.item)) :
           ChanceIs(BlockOptions(dStep.item)[k], 0) =>
             dStep.ch # Get(BlockOptions(dStep.item)[k], Key.name, None)

\* the entry key of the mapping x is a text that float() does not accept
NotNumber(x, key) ==
  /\ IsDict(x)
  /\ Has(x, key)
  /\ IsStr(Get(x, key, None))
  /\ ~ParseFloat(Get(x, key, None).s).ok

\* the item holds a weight or a chance that is no number: its own chance,
\* the chance of its choice block, the chance or the weight of an option
MalformedNumber(item) ==
  \/ NotNumber(item, Key.chance)
  \/ HasChoiceKey(item) /\ NotNumber(ChoiceBlock(item), Key.chance)
  \/ /\ HasChoiceKey(item)
     /\ \E k \in 1..Len(BlockOptions(item)) :
          \/ NotNumber(BlockOptions(item)[k], Key.chance)
          \/ NotNumber(BlockOptions(item)[k], Key.weight)

\* C6: the evaluation of an item that holds a weight or a chance that is no
\* number raises no error.
C6_MalformedNumbersDefault ==
  (ItemEvaluated /\ MalformedNumber(dStep.item)) => dStep.st = "ok"

\* C9: a section that is null, or that has no child item and no block
\* template, adds no block to the result.
C9_NoEmptyBlock ==
  /\ dStep.kind = "null" => ~dStep.appended
  /\ (dStep.kind = "end" /\ dStep.st = "ok" /\ dStep.nitems = 0
      /\ dStep.btpl = None) => ~dStep.appended

\* the line the item template gives for the values vals, expanded where
\* the step expanded its line
LineOf(vals, step) ==
  TemplateLine(step.tpl, CommaJoin(vals), step.vars, step.le).v

\* the text of a choice as a list of values: none when the choice skips
ChoiceText(ch) == IF ch = None THEN <<>> ELSE <<ch.s>>

\* C10: a choice item that follows a run of plain strings adds exactly one
\* line, the item template applied to the comma-join of the expanded texts
\* of the run and of the text of the choice (of the run alone when the
\* choice skips); a choice item that follows no plain string adds its own
\* text as a line, and no line when it skips.
C10_BufferMerge ==
  (ItemEvaluated /\ dStep.st = "ok" /\ HasChoiceKey(dStep.item)) =>
    IF dStep.run # <<>>
    THEN dStep.out = <<LineOf(dStep.run \o ChoiceText(dStep.ch), dStep)>>
    ELSE dStep.out = IF dStep.ch = None THEN <<>>
                     ELSE <<LineOf(<<dStep.ch.s>>, dStep)>>

\* a choice that did not skip was merged with a run of two plain strings
\* into one line
C10_Witness ==
  /\ ItemEvaluated
  /\ dStep.st = "ok"
  /\ HasChoiceKey(dStep.item)
  /\ Len(dStep.run) = 2
  /\ dStep.ch # None
  /\ dStep.out = <<dStep.run[1] \o <<",", " ">> \o dStep.run[2]
                     \o <<",", " ">> \o dStep.ch.s>>

\* the names that the section of entry k of the document defines in its
\* local vars
LocalNames(k) ==
  IF IsDict(dDoc.kv[k][2]) /\ Has(dDoc.kv[k][2], Key.vars)
     /\ IsDict(Get(dDoc.kv[k][2], Key.vars, None))
  THEN {Get(dDoc.kv[k][2], Key.vars, None).kv[i][1] :
          i \in 1..Len(Get(dDoc.kv[k][2], Key.vars, None).kv)}
  ELSE {}

\* C11: the local vars of a section extend the table for that section only.
\* While a section is walked, its table holds the names of the global table
\* and the names the section defines itself, and every name it does not
\* define itself has the value of the global table; and from the moment the
\* global table is built until parse_document returns, no step changes it.
C11_ScopeIsolated ==
  /\ [](dPc = "walk" =>
         /\ DOMAIN dLocal = (DOMAIN dVars) \cup LocalNames(dSec)
         /\ \A n \in (DOMAIN dVars) \ LocalNames(dSec) : dLocal[n] = dVars[n])
  /\ [][(dPc \in {"sections", "walk"}) => (dVars' = dVars)]_vars

\* a section with no local vars is walked against the global table after an
\* earlier section that overrides a global name and defines a new one
C11_Witness ==
  /\ dPc = "walk"
  /\ dStep.kind = "string"
  /\ dStep.st = "ok"
  /\ LocalNames(dSec) = {}
  /\ dVars # <<>>
  /\ dLocal = dVars
  /\ \E k \in 1..(dSec - 1) :
       /\ LocalNames(k) \cap DOMAIN dVars # {}
       /\ LocalNames(k) \ DOMAIN dVars # {}

====
